---- MODULE Spec2Model ----
(***************************************************************************)
(* cargo-minify: the symbol name generator, the two rename phases of       *)
(* minify_file and the whitespace compactor remove_extra_space.            *)
(*                                                                         *)
(* A Rust String is a sequence of one-character strings.  The file text of *)
(* the rename phases is the sequence of the spellings found at the         *)
(* identifier sites of the file (the text between the sites never changes  *)
(* during renaming); the compactor works on the character sequence itself. *)
(***************************************************************************)
EXTENDS Integers, Sequences, FiniteSets, TLC

VARIABLES
    \* ---- minify_file / minify_file_with_idents (src/src/main.rs) ----
    prog,           \* the identifier sites of the file, in traversal order
    orig_text,      \* the spellings of the input file, one per site
    host_text,      \* the file text held by analysis_host
    analysis,       \* the snapshot analysis_host.analysis() of the running phase
    file_text,      \* the local clone that minify_file_with_idents edits
    builder,        \* the TextEdit builder: the indels collected so far
    rename_idents,  \* argument rename_idents
    other_idents,   \* argument other_idents
    idx,            \* position of the for loop in rename_idents
    used_symbol,    \* SymbolNameGenerator.used_symbol
    current,        \* SymbolNameGenerator.current
    next_symbol,    \* the pending candidate
    phase,          \* 1: "Rename variable idents", 2: "Rename other idents"
    pc,             \* position in minify_file
    log,            \* history: one entry per processed element of rename_idents
    \* ---- repeated gen_next_symbol on a fresh generator ----
    g_current,      \* SymbolNameGenerator.current
    g_symbol,       \* the last spelling returned
    g_prev,         \* the spelling returned before it
    g_calls,        \* number of calls made
    \* ---- remove_extra_space ----
    source,         \* the text given to the first call
    cs,             \* the characters of the call in progress
    ci,             \* the scan index i
    result,         \* the characters pushed so far
    cpc,            \* "scan", "done", "panic" or "hang"
    pass            \* 1: the call on source, 2: the call on its own output

rvars == <<prog, orig_text, host_text, analysis, file_text, builder, rename_idents,
           other_idents, idx, used_symbol, current, next_symbol, phase, pc, log>>
gvars == <<g_current, g_symbol, g_prev, g_calls>>
cvars == <<source, cs, ci, result, cpc, pass>>
vars == <<rvars, gvars, cvars>>

\* ------------------------------------------------------------------ bounds
\* identifier sites of an arbitrary small file
MaxSites == 2
\* bindings of the long file (enough renames to pass the reserved word `as`)
MaxFill == 72
\* calls of gen_next_symbol that are followed (all of lengths 1 and 2, then `aaa`, `aab`)
MaxCalls == 3330
\* fragments of a text given to remove_extra_space
MaxFrags == 5

\* ------------------------------------------------------------------ helpers
Range(s) == {s[k] : k \in 1..Len(s)}

Reverse(s) == [k \in 1..Len(s) |-> s[Len(s) + 1 - k]]

RECURSIVE Flatten(_)
Flatten(ss) == IF ss = <<>> THEN <<>> ELSE Head(ss) \o Flatten(Tail(ss))

RECURSIVE SeqsUpTo(_, _)
SeqsUpTo(S, n) ==
    IF n = 0 THEN {<<>>}
    ELSE LET shorter == SeqsUpTo(S, n - 1)
         IN shorter \cup {Append(s, x) : s \in {t \in shorter : Len(t) = n - 1}, x \in S}

\* ------------------------------------------------------------- the alphabets
FIRST_CHARS ==
    <<"a","b","c","d","e","f","g","h","i","j","k","l","m",
      "n","o","p","q","r","s","t","u","v","w","x","y","z",
      "A","B","C","D","E","F","G","H","I","J","K","L","M",
      "N","O","P","Q","R","S","T","U","V","W","X","Y","Z">>

CHARS ==
    FIRST_CHARS \o <<"_","0","1","2","3","4","5","6","7","8","9">>

reserved_words ==
    { <<"a","s">>, <<"i","m","p","l">>, <<"f","n">>, <<"d","o">>,
      <<"w","h","i","l","e">>, <<"i","f">>, <<"e","l","s","e">>,
      <<"m","a","t","c","h">>, <<"u","s","e">>, <<"t","y","p","e">>,
      <<"e","n","u","m">>, <<"s","t","r","u","c","t">>, <<"p","u","b">>,
      <<"c","r","a","t","e">>, <<"s","u","p","e","r">>, <<"s","e","l","f">>,
      <<"S","e","l","f">>, <<"s","t","a","t","i","c">>, <<"m","o","d">>,
      <<"l","e","t">>, <<"c","o","n","s","t">>, <<"m","u","t">> }

\* ------------------------------------------------------- SymbolNameGenerator
\* the number of admissible characters at digit i (0-based) of a counter of n digits
valid_symbol_char_count_wrong(i, n) == Len(CHARS)

valid_symbol_char_count(i, n) ==
    IF i = n - 1 THEN Len(FIRST_CHARS) ELSE Len(CHARS)

\* the for loop of gen_next_symbol from digit i on; cur[i + 1] is self.current[i]
RECURSIVE gen_carry(_, _)
gen_carry(cur, i) ==
    IF i >= Len(cur) THEN cur
    ELSE LET inc == [cur EXCEPT ![i + 1] = @ + 1]
             is_first_digit == (i = Len(cur) - 1)
         IN IF inc[i + 1] # valid_symbol_char_count(i, Len(cur)) THEN inc
            ELSE LET zero == [inc EXCEPT ![i + 1] = 0]
                 IN IF is_first_digit THEN Append(zero, 0)
                    ELSE gen_carry(zero, i + 1)

\* gen_next_symbol: the new counter and the spelling returned
gen_next_symbol(cur) ==
    IF cur = <<>> THEN [current |-> <<0>>, symbol |-> <<FIRST_CHARS[1]>>]
    ELSE LET nxt == gen_carry(cur, 0)
         IN [current |-> nxt,
             symbol |-> [k \in 1..Len(nxt) |-> CHARS[Reverse(nxt)[k] + 1]]]

\* the test of the loop of gen_next_unused_symbol: the candidate is returned
is_unused_ignoring_used(symbol, used) == symbol \notin reserved_words

is_unused(symbol, used) == symbol \notin used /\ symbol \notin reserved_words

RECURSIVE gen_next_unused_symbol(_, _)
gen_next_unused_symbol(cur, used) ==
    LET g == gen_next_symbol(cur)
    IN IF is_unused(g.symbol, used) THEN g
       ELSE gen_next_unused_symbol(g.current, used)

\* ------------------------------------------------------------ the input file
\* spellings
nm_a == <<"a">>
nm_b == <<"b">>
nm_xy == <<"x","y">>
nm_foo == <<"f","o","o">>
nm_main == <<"m","a","i","n">>
nm_counter == <<"c","o","u","n","t","e","r">>

Names == {nm_a, nm_b, nm_foo, nm_main}

(* An identifier site is a declaration site the visitor can come across:      *)
(*   "var"          a name bound by a pattern, a const or a static            *)
(*   "item"         mod, use-rename, struct, field, enum, variant, fn, trait  *)
(*   "trait_method" a method declared in a trait                              *)
(*   "impl_method"  a method of an impl block; for_trait is node.trait_.is_some()*)
(*                  of that block, trait_decl the site of the trait's own     *)
(*                  declaration of the method when the trait is in the file   *)
(*                  (0 when it is not)                                        *)
Site(kind, for_trait, trait_decl, name) ==
    [kind |-> kind, for_trait |-> for_trait, trait_decl |-> trait_decl, name |-> name]

\* the sites a file of at most n sites can hold
SiteChoices(n) ==
    {Site(k, FALSE, 0, nm) : k \in {"var", "item", "trait_method", "impl_method"}, nm \in Names}
    \cup {Site("impl_method", TRUE, d, nm) : d \in 0..n, nm \in Names}

\* a trait impl's method implements a method the trait declares under the same name
WellFormed(f) ==
    \A s \in 1..Len(f) :
        f[s].trait_decl # 0 =>
            /\ f[s].trait_decl \in 1..Len(f)
            /\ f[f[s].trait_decl].kind = "trait_method"
            /\ f[f[s].trait_decl].name = f[s].name

\* every file of 1 to n sites
SmallFiles(n) == {f \in SeqsUpTo(SiteChoices(n), n) : Len(f) >= 1 /\ WellFormed(f)}

\* n bindings that all spell `counter`, then one of a few endings
LongTails(n) ==
    { <<Site("item", FALSE, 0, nm_counter)>>,
      <<Site("var", FALSE, 0, nm_xy), Site("item", FALSE, 0, nm_main)>>,
      <<Site("trait_method", FALSE, 0, nm_foo),
        Site("impl_method", TRUE, n + 1, nm_foo)>> }

LongFiles(n) ==
    {[k \in 1..n |-> Site("var", FALSE, 0, nm_counter)] \o t : t \in LongTails(n)}

Files(small, long) == SmallFiles(small) \cup LongFiles(long)

Sites == 1..Len(prog)

\* --------------------------------------------------------- SymbolCollectVisitor
\* visit_impl_item_method_mut: the method's name is pushed to ident_others
impl_method_pushed_always(site) == TRUE

impl_method_pushed(site) == ~site.for_trait

\* the list a site's identifier is pushed to
visit(site) ==
    CASE site.kind = "var" -> "ident_var"
      [] site.kind = "item" -> "ident_others"
      [] site.kind = "trait_method" -> "ident_others"
      [] site.kind = "impl_method" ->
            IF impl_method_pushed(site) THEN "ident_others" ELSE "none"

Ident(name, pos) == [name |-> name, pos |-> pos]

RECURSIVE collect(_, _, _, _)
collect(p, text, list, s) ==
    IF s > Len(p) THEN <<>>
    ELSE (IF visit(p[s]) = list THEN <<Ident(text[s], s)>> ELSE <<>>)
         \o collect(p, text, list, s + 1)

\* create_symbol_collect_visitor: parse the host's text and visit it
create_symbol_collect_visitor(p, text) ==
    [ident_var |-> collect(p, text, "ident_var", 1),
     ident_others |-> collect(p, text, "ident_others", 1)]

\* --------------------------------------------------------------- the Renamer
\* the definition a site resolves to
Def(p, s) == IF p[s].trait_decl # 0 THEN p[s].trait_decl ELSE s

\* analysis.rename(position, new_name): one indel per site that resolves to the
\* definition at the position
rename(p, pos, new_name) ==
    LET hit == {s \in 1..Len(p) : Def(p, s) = Def(p, pos)}
    IN {[delete |-> s, insert |-> new_name] : s \in hit}

\* builder.finish().apply(&mut file_text)
apply_nothing(indels, text) == text

apply(indels, text) ==
    [s \in 1..Len(text) |->
        IF \E e \in indels : e.delete = s
        THEN (CHOOSE e \in indels : e.delete = s).insert
        ELSE text[s]]

\* ------------------------------------------------------ minify_file_with_idents
names_of(idents) == {idents[k].name : k \in 1..Len(idents)}

\* SymbolNameGenerator::new
new_used_symbol(used_idents, others) == names_of(used_idents) \cup names_of(others)

is_main_never(renamed_symbol) == FALSE

is_main(renamed_symbol) == renamed_symbol = nm_main

too_short_strict(renamed_symbol, candidate) == Len(renamed_symbol) < Len(candidate)

too_short(renamed_symbol, candidate) == Len(renamed_symbol) <= Len(candidate)

LogEntry(id, act) ==
    [phase |-> phase, pos |-> id.pos, name |-> id.name, old |-> analysis[id.pos],
     cand |-> next_symbol, act |-> act, seen |-> analysis, buffer |-> file_text,
     classified |-> names_of(rename_idents) \cup names_of(other_idents)]

\* minify_file: create_symbol_collect_visitor, then the call of
\* minify_file_with_idents up to its for loop
StartPhase ==
    /\ pc = "visit"
    /\ LET visitor == create_symbol_collect_visitor(prog, host_text)
           ri == IF phase = 1 THEN visitor.ident_var ELSE visitor.ident_others
           oi == IF phase = 1 THEN visitor.ident_others ELSE visitor.ident_var
           used == new_used_symbol(ri, oi)
           g == gen_next_unused_symbol(<<>>, used)
       IN /\ rename_idents' = ri
          /\ other_idents' = oi
          /\ analysis' = host_text
          /\ file_text' = host_text
          /\ used_symbol' = used
          /\ current' = g.current
          /\ next_symbol' = g.symbol
    /\ builder' = {}
    /\ idx' = 1
    /\ pc' = "loop"
    /\ UNCHANGED <<prog, orig_text, host_text, phase, log>>

\* one iteration of the for loop: `main` is skipped
SkipMain ==
    /\ pc = "loop" /\ idx <= Len(rename_idents)
    /\ is_main(rename_idents[idx].name)
    /\ log' = Append(log, LogEntry(rename_idents[idx], "skip_main"))
    /\ idx' = idx + 1
    /\ UNCHANGED <<prog, orig_text, host_text, analysis, file_text, builder, rename_idents,
                   other_idents, used_symbol, current, next_symbol, phase, pc>>

\* one iteration of the for loop: renaming would not shorten the identifier
SkipShort ==
    /\ pc = "loop" /\ idx <= Len(rename_idents)
    /\ ~is_main(rename_idents[idx].name)
    /\ too_short(rename_idents[idx].name, next_symbol)
    /\ log' = Append(log, LogEntry(rename_idents[idx], "skip_len"))
    /\ idx' = idx + 1
    /\ UNCHANGED <<prog, orig_text, host_text, analysis, file_text, builder, rename_idents,
                   other_idents, used_symbol, current, next_symbol, phase, pc>>

\* one iteration of the for loop: the rename is requested, its indels go to the
\* builder and the next candidate is generated
Rename ==
    /\ pc = "loop" /\ idx <= Len(rename_idents)
    /\ ~is_main(rename_idents[idx].name)
    /\ ~too_short(rename_idents[idx].name, next_symbol)
    /\ builder' = builder \cup rename(prog, rename_idents[idx].pos, next_symbol)
    /\ LET g == gen_next_unused_symbol(current, used_symbol)
       IN current' = g.current /\ next_symbol' = g.symbol
    /\ log' = Append(log, LogEntry(rename_idents[idx], "rename"))
    /\ idx' = idx + 1
    /\ UNCHANGED <<prog, orig_text, host_text, analysis, file_text, rename_idents,
                   other_idents, used_symbol, phase, pc>>

\* one iteration of the for loop: the rename is requested and the Renamer refuses;
\* `?` leaves minify_file with the error
RenameFails ==
    /\ pc = "loop" /\ idx <= Len(rename_idents)
    /\ ~is_main(rename_idents[idx].name)
    /\ ~too_short(rename_idents[idx].name, next_symbol)
    /\ log' = Append(log, LogEntry(rename_idents[idx], "fail"))
    /\ pc' = "failed"
    /\ UNCHANGED <<prog, orig_text, host_text, analysis, file_text, builder, rename_idents,
                   other_idents, idx, used_symbol, current, next_symbol, phase>>

\* after the for loop: the collected indels are applied to file_text and the
\* text is given to analysis_host
FinishPhase ==
    /\ pc = "loop" /\ idx > Len(rename_idents)
    /\ file_text' = apply(builder, file_text)
    /\ host_text' = file_text'
    /\ IF phase = 1 THEN phase' = 2 /\ pc' = "visit"
                    ELSE phase' = phase /\ pc' = "done"
    /\ UNCHANGED <<prog, orig_text, analysis, builder, rename_idents, other_idents, idx,
                   used_symbol, current, next_symbol, log>>

InitRename ==
    /\ \E f \in Files(MaxSites, MaxFill) :
          /\ prog = [s \in 1..Len(f) |->
                        [kind |-> f[s].kind, for_trait |-> f[s].for_trait,
                         trait_decl |-> f[s].trait_decl]]
          /\ orig_text = [s \in 1..Len(f) |-> f[s].name]
    /\ host_text = orig_text
    /\ analysis = orig_text
    /\ file_text = orig_text
    /\ builder = {}
    /\ rename_idents = <<>>
    /\ other_idents = <<>>
    /\ idx = 1
    /\ used_symbol = {}
    /\ current = <<>>
    /\ next_symbol = <<>>
    /\ phase = 1
    /\ pc = "visit"
    /\ log = <<>>

\* the values of the variables of a part that a specification does not run
IdleRename ==
    /\ prog = <<>> /\ orig_text = <<>> /\ host_text = <<>> /\ analysis = <<>>
    /\ file_text = <<>> /\ builder = {} /\ rename_idents = <<>> /\ other_idents = <<>>
    /\ idx = 1 /\ used_symbol = {} /\ current = <<>> /\ next_symbol = <<>>
    /\ phase = 1 /\ pc = "idle" /\ log = <<>>

IdleGen == g_current = <<>> /\ g_symbol = <<>> /\ g_prev = <<>> /\ g_calls = 0

IdleCompact ==
    source = <<>> /\ cs = <<>> /\ ci = 0 /\ result = <<>> /\ cpc = "idle" /\ pass = 1

Init == InitRename /\ IdleGen /\ IdleCompact

Next ==
    \/ StartPhase /\ UNCHANGED <<gvars, cvars>>
    \/ SkipMain /\ UNCHANGED <<gvars, cvars>>
    \/ SkipShort /\ UNCHANGED <<gvars, cvars>>
    \/ Rename /\ UNCHANGED <<gvars, cvars>>
    \/ RenameFails /\ UNCHANGED <<gvars, cvars>>
    \/ FinishPhase /\ UNCHANGED <<gvars, cvars>>

Spec == Init /\ [][Next]_vars

\* ------------------------------------- gen_next_symbol called again and again
InitGen ==
    /\ IdleRename /\ IdleCompact
    /\ g_current = <<>> /\ g_symbol = <<>> /\ g_prev = <<>> /\ g_calls = 0

GenNextSymbol ==
    /\ g_calls < MaxCalls
    /\ LET g == gen_next_symbol(g_current)
       IN g_current' = g.current /\ g_symbol' = g.symbol
    /\ g_prev' = g_symbol
    /\ g_calls' = g_calls + 1
    /\ UNCHANGED <<rvars, cvars>>

NextGen == GenNextSymbol

SpecGen == InitGen /\ [][NextGen]_vars

\* ---------------------------------------------------------- remove_extra_space
\* the characters the texts are made of
SP == " "
NL == "\n"
QUOTE == "\""

\* char::is_whitespace and alnum (char::is_alphanumeric or '_') on those characters
is_whitespace(c) == c \in {SP, NL}

alnum(c) == c \in {"a", "r", "0"}

Fragments ==
    { <<"a">>, <<"0">>, <<".">>, <<"&">>, <<QUOTE>>, <<SP>>, <<NL>>,
      <<"/", "/">>, <<"r", "#", QUOTE>>, <<QUOTE, "#">> }

\* the texts made of at most n fragments
Texts(n) == {Flatten(fs) : fs \in SeqsUpTo(Fragments, n)}

\* text[i..].starts_with(pat), i counted from 0
starts_with(text, i, pat) ==
    i + Len(pat) <= Len(text) /\ SubSeq(text, i + 1, i + Len(pat)) = pat

\* res.ends_with(pat)
ends_with(res, pat) ==
    Len(res) >= Len(pat) /\ SubSeq(res, Len(res) - Len(pat) + 1, Len(res)) = pat

Step(i, res, st) == [ci |-> i, result |-> res, cpc |-> st]

\* while i < cs.len() && cs[i].is_whitespace() { i += 1 }
RECURSIVE skip_whitespace(_, _)
skip_whitespace(text, i) ==
    IF i < Len(text) /\ is_whitespace(text[i + 1]) THEN skip_whitespace(text, i + 1) ELSE i

\* while !result.ends_with(pat) { result.push(cs[i]); i += 1 }; cs[i] panics
\* when i is past the end
RECURSIVE copy_until(_, _, _, _)
copy_until(text, i, res, pat) ==
    IF ends_with(res, pat) THEN Step(i, res, "scan")
    ELSE IF i >= Len(text) THEN Step(i, res, "panic")
    ELSE copy_until(text, i + 1, Append(res, text[i + 1]), pat)

\* while alnum(cs[i]) { result.push(cs[i]); i += 1 }
RECURSIVE copy_alnum(_, _, _)
copy_alnum(text, i, res) ==
    IF i >= Len(text) THEN Step(i, res, "panic")
    ELSE IF alnum(text[i + 1]) THEN copy_alnum(text, i + 1, Append(res, text[i + 1]))
    ELSE Step(i, res, "scan")

\* the separator pushed before the token that starts with c
separator(res, c) ==
    IF ends_with(res, <<".", "0">>) /\ c = "." THEN <<SP>>
    ELSE IF res # <<>> /\ alnum(res[Len(res)]) /\ alnum(c) THEN <<SP>>
    ELSE <<>>

\* the index at which the branches of one iteration of the outer loop look
At == skip_whitespace(cs, ci)

AtRawString == starts_with(cs, At, <<"r", "#", QUOTE>>)

AtLineComment == starts_with(cs, At, <<"/", "/">>)

\* the end of an iteration that did not return: `continue`, or the fall through
\* to the head of the loop. An iteration that leaves i and result as it found
\* them is repeated without end.
Continue(st) ==
    /\ ci' = st.ci
    /\ result' = st.result
    /\ cpc' = IF st.cpc = "scan" /\ st.ci = ci /\ st.result = result THEN "hang" ELSE st.cpc
    /\ UNCHANGED <<source, cs, pass>>

\* if i >= cs.len() { break result }
Return ==
    /\ cpc = "scan"
    /\ At >= Len(cs)
    /\ ci' = At
    /\ cpc' = "done"
    /\ UNCHANGED <<source, cs, result, pass>>

\* if cs[i..].starts_with(&['r', '#', '"'])
RawString ==
    /\ cpc = "scan"
    /\ At < Len(cs)
    /\ AtRawString
    /\ Continue(copy_until(cs, At, result, <<QUOTE, "#">>))

\* if cs[i..].starts_with(&['/', '/'])
LineComment ==
    /\ cpc = "scan"
    /\ At < Len(cs)
    /\ ~AtRawString /\ AtLineComment
    /\ Continue(copy_until(cs, At, result, <<NL>>))

\* the rest of the loop body: a separator where one is needed, one character,
\* then the alphanumeric characters that follow it
Token ==
    /\ cpc = "scan"
    /\ At < Len(cs)
    /\ ~AtRawString /\ ~AtLineComment
    /\ Continue(copy_alnum(cs, At + 1,
                           result \o separator(result, cs[At + 1]) \o <<cs[At + 1]>>))

\* remove_extra_space called on the text it returned
CompactAgain ==
    /\ cpc = "done" /\ pass = 1
    /\ cs' = result
    /\ ci' = 0
    /\ result' = <<>>
    /\ cpc' = "scan"
    /\ pass' = 2
    /\ UNCHANGED source

InitCompact ==
    /\ IdleRename /\ IdleGen
    /\ source \in Texts(MaxFrags)
    /\ cs = source
    /\ ci = 0
    /\ result = <<>>
    /\ cpc = "scan"
    /\ pass = 1

NextCompact ==
    \/ Return /\ UNCHANGED <<rvars, gvars>>
    \/ RawString /\ UNCHANGED <<rvars, gvars>>
    \/ LineComment /\ UNCHANGED <<rvars, gvars>>
    \/ Token /\ UNCHANGED <<rvars, gvars>>
    \/ CompactAgain /\ UNCHANGED <<rvars, gvars>>

SpecCompact == InitCompact /\ [][NextCompact]_vars

\* ------------------------------------------------------------ the rename claims
\* the entries of the log at which a rename request was issued
Requests == {k \in 1..Len(log) : log[k].act \in {"rename", "fail"}}

Renamed == {k \in 1..Len(log) : log[k].act = "rename"}

IsTraitImplMethod(s) == prog[s].kind = "impl_method" /\ prog[s].for_trait

\* C1: over one run of minify_file the new spellings requested for distinct
\* occurrences are pairwise distinct, in one phase and across Phase A and
\* Phase B; none is a reserved word; none is a spelling of the Binding or
\* Declaration sequence classified at the start of its phase.
C1_NoCollision ==
    /\ \A i \in Requests, j \in Requests : i # j => log[i].cand # log[j].cand
    /\ \A i \in Requests : log[i].cand \notin reserved_words
    /\ \A i \in Requests : log[i].cand \notin log[i].classified

\* a run that requested `at` (the candidate after the reserved `as`) in Phase A
\* and went on to request a rename in Phase B
C1_Witness ==
    /\ pc = "done"
    /\ \E i \in Renamed, j \in Renamed :
          /\ log[i].phase = 1 /\ log[j].phase = 2
          /\ log[i].cand = <<"a", "t">>
    /\ \E i \in Renamed : log[i].classified \cap {nm_a, nm_b} # {}

C5_MainKept ==
    /\ \A i \in Requests : log[i].old # nm_main /\ log[i].name # nm_main
    /\ \A s \in Sites : orig_text[s] = nm_main =>
          host_text[s] = nm_main /\ file_text[s] = nm_main

\* a finished run that came across `main` in Phase B and renamed something else
C5_Witness ==
    /\ pc = "done"
    /\ \E i \in 1..Len(log) : log[i].act = "skip_main" /\ log[i].phase = 2
                              /\ prog[log[i].pos].kind = "item"
    /\ Renamed # {}

\* C6: every rename request carries a new spelling strictly shorter than the
\* current spelling of its target; an occurrence not longer than the pending
\* candidate is passed over without a request.
C6_StrictlyShorter ==
    \A i \in 1..Len(log) :
        /\ i \in Requests => Len(log[i].cand) < Len(log[i].old)
        /\ Len(log[i].old) <= Len(log[i].cand) => log[i].act \in {"skip_len", "skip_main"}

\* a two-character identifier passed over because the candidate has two
\* characters too, after renames were requested
C6_Witness ==
    /\ \E i \in 1..Len(log) :
          log[i].act = "skip_len" /\ Len(log[i].old) = 2 /\ Len(log[i].cand) = 2
    /\ \E i \in Renamed : Len(log[i].cand) = 2

\* C10 as stated: a request that follows a successful rename of the same phase is
\* answered against text, and issued with a buffer, that holds that rename.
C10_DurableBeforeNext ==
    \A i \in Renamed, j \in Requests :
        (i < j /\ log[i].phase = log[j].phase) =>
            /\ log[j].seen[log[i].pos] = log[i].cand
            /\ log[j].buffer[log[i].pos] = log[i].cand

\* C10 amended: a phase collects its edits: every request of a phase is answered
\* against the text the phase started with, the buffer is not edited while the
\* loop runs, and the collected edits reach the buffer and the analysis host
\* together when the loop is over, before the next phase starts.
C10_AppliedAtPhaseEnd ==
    /\ \A j \in Requests :
          /\ log[j].seen = log[j].buffer
          /\ log[j].phase = 1 => log[j].seen = orig_text
          /\ \A i \in Renamed :
                /\ (i < j /\ log[i].phase = log[j].phase) =>
                      log[j].seen[log[i].pos] = log[i].old
                /\ log[i].phase < log[j].phase =>
                      log[j].seen[log[i].pos] = log[i].cand
    /\ pc = "loop" => file_text = analysis /\ host_text = analysis
    /\ \A i \in Renamed :
          (log[i].phase < phase \/ pc = "done") =>
              host_text[log[i].pos] = log[i].cand /\ file_text[log[i].pos] = log[i].cand

\* a finished run with two renames in Phase A and one in Phase B
C10_Witness ==
    /\ pc = "done"
    /\ \E i \in Renamed, j \in Renamed, k \in Renamed :
          i < j /\ log[i].phase = 1 /\ log[j].phase = 1 /\ log[k].phase = 2

\* -------------------------------------------------------- the generator claim
IndexIn(alphabet, c) == (CHOOSE k \in 1..Len(alphabet) : alphabet[k] = c) - 1

RECURSIVE Pow(_, _)
Pow(b, e) == IF e = 0 THEN 1 ELSE b * Pow(b, e - 1)

\* the number of spellings with fewer than n characters: a letter first, then
\* characters of an alphabet of `radix` symbols
RECURSIVE Shorter(_, _)
Shorter(n, radix) ==
    IF n <= 1 THEN 0 ELSE Shorter(n - 1, radix) + 52 * Pow(radix, n - 2)

\* the value of a spelling read as a numeral, first character most significant
RECURSIVE Value(_, _)
Value(sym, radix) ==
    IF Len(sym) = 1 THEN IndexIn(FIRST_CHARS, sym[1])
    ELSE Value(SubSeq(sym, 1, Len(sym) - 1), radix) * radix + IndexIn(CHARS, sym[Len(sym)])

\* the place of a spelling when all spellings are listed shortest first
Rank(sym, radix) == Shorter(Len(sym), radix) + Value(sym, radix) + 1

\* the k-th call returns the k-th spelling of the list "a letter first, then any
\* of `radix` characters, shortest first"
ShortestFirst(radix) ==
    g_calls >= 1 =>
          /\ g_symbol[1] \in Range(FIRST_CHARS)
          /\ \A k \in 2..Len(g_symbol) : g_symbol[k] \in Range(CHARS)
          /\ Rank(g_symbol, radix) = g_calls
          /\ Shorter(Len(g_symbol), radix) < g_calls
          /\ g_calls <= Shorter(Len(g_symbol) + 1, radix)
          /\ Len(g_prev) <= Len(g_symbol)
          /\ g_prev # g_symbol
          /\ g_calls <= 52 => g_symbol = <<FIRST_CHARS[g_calls]>>
          /\ g_calls = 1 => g_symbol = <<"a">>
          /\ g_calls = 26 => g_symbol = <<"z">>
          /\ g_calls = 27 => g_symbol = <<"A">>
          /\ g_calls = 52 => g_symbol = <<"Z">>
          /\ g_calls = 53 => g_symbol = <<"a", "a">>
          /\ g_calls = 54 => g_symbol = <<"a", "b">>

\* C9 as stated: the calls list, without repeating, the spellings made of one of
\* the 52 letters followed by characters of the 62 symbols, shortest first
\* (a..z, A..Z, aa, ab, ...).
C9_ShortestFirst62 == ShortestFirst(62)

\* C9 amended: the same with the 63 symbols of CHARS (52 letters, the underscore
\* and ten digits) after the first character.
C9_ShortestFirst63 ==
    /\ Len(FIRST_CHARS) = 52 /\ Len(CHARS) = 63
    /\ ShortestFirst(63)

\* every spelling of one and of two characters has been returned and the first
\* of three characters follows
C9_Witness == g_calls = 52 + 52 * 63 + 1 /\ g_symbol = <<"a", "a", "a">>

\* ------------------------------------------------------- the compactor claims
(* The tokens of a text, by the lexical rules of Rust on the characters used:  *)
(* a line comment runs to the end of its line, r#"..."# is a raw string,       *)
(* "..." a string, a digit starts a number (digits, a fraction when the `.`   *)
(* is followed neither by `.` nor by a letter, then a suffix), a letter starts *)
(* an identifier, and adjacent `&&`, `..`, `...` are one punctuation token.    *)
Tok(kind, text) == [kind |-> kind, text |-> text]

LexError == <<Tok("error", <<>>)>>

\* the least j >= i at which pat starts, or -1
RECURSIVE find(_, _, _)
find(text, i, pat) ==
    IF i + Len(pat) > Len(text) THEN -1
    ELSE IF starts_with(text, i, pat) THEN i
    ELSE find(text, i + 1, pat)

\* the end of the run of characters of S that starts at i
RECURSIVE run_end(_, _, _)
run_end(text, i, S) ==
    IF i < Len(text) /\ text[i + 1] \in S THEN run_end(text, i + 1, S) ELSE i

Letters == {"a", "r"}
Digits == {"0"}

CharAt(text, i) == IF i < Len(text) THEN text[i + 1] ELSE "eof"

\* the end of the number that starts at i
number_end(text, i) ==
    LET int_end == run_end(text, i, Digits)
        frac_end ==
            IF CharAt(text, int_end) = "."
               /\ CharAt(text, int_end + 1) \notin ({"."} \cup Letters)
            THEN run_end(text, int_end + 1, Digits)
            ELSE int_end
    IN IF CharAt(text, frac_end) \in Letters
       THEN run_end(text, frac_end, Letters \cup Digits)
       ELSE frac_end

punct_end(text, i) ==
    IF starts_with(text, i, <<".", ".", ".">>) THEN i + 3
    ELSE IF starts_with(text, i, <<".", ".">>) THEN i + 2
    ELSE IF starts_with(text, i, <<"&", "&">>) THEN i + 2
    ELSE i + 1

RECURSIVE lex(_, _)
lex(text, i) ==
    IF i >= Len(text) THEN <<>>
    ELSE IF is_whitespace(text[i + 1]) THEN lex(text, i + 1)
    ELSE IF starts_with(text, i, <<"/", "/">>) THEN
        LET e == IF find(text, i, <<NL>>) = -1 THEN Len(text) ELSE find(text, i, <<NL>>)
        IN <<Tok("comment", SubSeq(text, i + 1, e))>> \o lex(text, e)
    ELSE IF starts_with(text, i, <<"r", "#", QUOTE>>) THEN
        LET j == find(text, i + 3, <<QUOTE, "#">>)
        IN IF j = -1 THEN LexError
           ELSE <<Tok("raw_string", SubSeq(text, i + 1, j + 2))>> \o lex(text, j + 2)
    ELSE IF text[i + 1] = QUOTE THEN
        LET j == find(text, i + 1, <<QUOTE>>)
        IN IF j = -1 THEN LexError
           ELSE <<Tok("string", SubSeq(text, i + 1, j + 1))>> \o lex(text, j + 1)
    ELSE LET e == IF text[i + 1] \in Digits THEN number_end(text, i)
                  ELSE IF text[i + 1] \in Letters THEN run_end(text, i, Letters \cup Digits)
                  ELSE punct_end(text, i)
             kind == IF text[i + 1] \in Digits THEN "number"
                     ELSE IF text[i + 1] \in Letters THEN "ident" ELSE "punct"
         IN <<Tok(kind, SubSeq(text, i + 1, e))>> \o lex(text, e)

Lex(text) == lex(text, 0)

LexOk(text) == \A k \in 1..Len(Lex(text)) : Lex(text)[k].kind # "error"

IsCode(tok) == tok.kind # "comment"

IsVerbatim(tok) == tok.kind \in {"comment", "raw_string", "string"}

Occurs(pat, text) == find(text, 0, pat) # -1

\* the first call has returned, and its input was a text Rust can tokenize
Compacted == pass = 1 /\ cpc = "done" /\ LexOk(source)

\* C2: each string literal, raw string literal and line comment of the input
\* appears in the output of remove_extra_space character for character.
C2_LiteralsKept ==
    Compacted =>
        \A k \in 1..Len(Lex(source)) :
            IsVerbatim(Lex(source)[k]) => Occurs(Lex(source)[k].text, result)

\* C3: tokenizing the output of remove_extra_space gives the tokens of the
\* input, in order (white space and comments aside).
C3_TokensKept ==
    Compacted => SelectSeq(Lex(result), IsCode) = SelectSeq(Lex(source), IsCode)

\* C7: remove_extra_space returns for every input: no read past the end of the
\* input, no iteration of the outer loop that makes no progress.
C7_Returns == pass = 1 => cpc \notin {"panic", "hang"}

\* C8: when remove_extra_space returns r, remove_extra_space(r) returns r.
C8_Idempotent ==
    pass = 2 => /\ cpc \notin {"panic", "hang"}
                /\ cpc = "done" => result = cs

====
